---- MODULE Spec2Model ----
(***************************************************************************)
(* Model of the blackbox-ecom-backend skeleton:                            *)
(*   - the process supervisor (server start-up, signal handlers, exits),   *)
(*   - the error layer (globalErrorHandler and its helpers),               *)
(*   - the API not-found responder (apiNotFoundHandler).                   *)
(* Strings are TLA+ strings; TLC evaluates Len, \o and SubSeq on them, so  *)
(* template literals, includes(), startsWith(), split() and join() are     *)
(* computed character by character as the JavaScript does.                 *)
(***************************************************************************)
EXTENDS Integers, Sequences, FiniteSets, TLC

VARIABLES
  \* ---- process supervisor (server entry point + connectDB) ----
  pc,             \* "connecting" | "binding" | "running" | "exited"
  server,         \* the module variable `server`: TRUE once app.listen returned
  serverState,    \* "none" | "listening" | "closing" | "closed"
  inflight,       \* responses still being written on open connections
  closeCalls,     \* invocations of server.close
  closeCallbacks, \* callbacks registered on the server's 'close' event
  dbSigint,       \* connectDB's SIGINT handler is registered
  dbCloseCalls,   \* invocations of mongoose.connection.close
  dbClosing,      \* pending awaits of mongoose.connection.close
  faultHandlers,  \* handleUnhandledRejection/handleUncaughtException were called
  signals,        \* termination signals delivered so far
  lastEvent,      \* the last process-level event delivered
  exitCalls,      \* calls of process.exit (or the runtime's own fatal exit)
  exitCode,       \* the codes the process was ended with: <<>> or <<code>>
  exitSite,       \* the place that terminated the process
  \* ---- error layer ----
  raised,         \* the failure as it was raised, before the handler ran
  err,            \* the failure object handed to globalErrorHandler
  nodeEnv,        \* process.env.NODE_ENV
  res,            \* the response written by the handler
  \* ---- not-found responder ----
  req,            \* the request handed to apiNotFoundHandler
  nf              \* what apiNotFoundHandler did

supVars == <<pc, server, serverState, inflight, closeCalls, closeCallbacks,
             dbSigint, dbCloseCalls, dbClosing, faultHandlers, signals,
             lastEvent, exitCalls, exitCode, exitSite>>
errVars == <<raised, err, nodeEnv, res>>
nfVars  == <<req, nf>>
vars    == <<supVars, errVars, nfVars>>

\* ------------------------------------------------------------------ bounds
MaxSignals  == 3
MaxInflight == 2

(***************************************************************************)
(*                          PROCESS SUPERVISOR                             *)
(***************************************************************************)
Signals == {"SIGTERM", "SIGINT"}
Faults  == {"unhandledRejection", "uncaughtException"}

\* The places that end the process with a graceful code.
SignalSites == {"gracefulShutdown.closeCallback", "gracefulShutdown.noServer",
                "connectDB.SIGINT"}

\* process.exit(code): the process is gone, nothing runs after it.
Exit(code, site) ==
  /\ pc' = "exited"
  /\ exitCalls' = exitCalls + 1
  /\ exitCode' = Append(exitCode, code)
  /\ exitSite' = site

SupIdleErr == UNCHANGED <<errVars, nfVars>>

\* server.close found no open connection (or the last one just ended): the
\* 'close' event is queued on the next tick, which runs before any further
\* I/O event, signal or timer is dispatched.
ClosePending == pc = "running" /\ serverState = "closing" /\ inflight = 0

\* connectDB's catch block: missing MONGODB_URI or mongoose.connect rejected.
ConnectDBFail ==
  /\ pc = "connecting"
  /\ \E reason \in {"noURI", "connectRejected"} :
        lastEvent' = "startup:" \o reason
  /\ Exit(1, "connectDB.catch")
  /\ UNCHANGED <<server, serverState, inflight, closeCalls, closeCallbacks,
                 dbSigint, dbCloseCalls, dbClosing, faultHandlers, signals>>
  /\ SupIdleErr

\* startServer: connectDB resolved (its SIGINT handler is registered), then
\* app.listen either returns the server handle or throws synchronously (bad
\* port), which startServer's catch turns into exit(1).
StartServer ==
  /\ pc = "connecting"
  /\ dbSigint' = TRUE
  /\ \E listenThrows \in BOOLEAN :
        IF listenThrows
          THEN /\ lastEvent' = "startup:listenThrows"
               /\ Exit(1, "startServer.catch")
               /\ UNCHANGED <<server, serverState>>
          ELSE /\ lastEvent' = "listenCalled"
               /\ pc' = "binding"
               /\ server' = TRUE
               /\ serverState' = "listening"
               /\ UNCHANGED <<exitCalls, exitCode, exitSite>>
  /\ UNCHANGED <<inflight, closeCalls, closeCallbacks, dbCloseCalls, dbClosing,
                 faultHandlers, signals>>
  /\ SupIdleErr

\* The 'listening' event: the port is bound (emitted on the next tick after
\* listen, before any signal can be dispatched).
Listening ==
  /\ pc = "binding"
  /\ pc' = "running"
  /\ lastEvent' = "listening"
  /\ UNCHANGED <<server, serverState, inflight, closeCalls, closeCallbacks,
                 dbSigint, dbCloseCalls, dbClosing, faultHandlers, signals,
                 exitCalls, exitCode, exitSite>>
  /\ SupIdleErr

\* An uncaught exception or unhandled rejection: the registered handler logs
\* and calls process.exit(1); with no handler registered the runtime itself
\* terminates the process with code 1.
FatalExit ==
  Exit(1, IF faultHandlers THEN "faultHandler" ELSE "runtimeDefault")

\* A slip in the EADDRINUSE branch: the port conflict ends the process with
\* the graceful code.
ServerErrorHandlerExitsZero(syscall, code) ==
  IF syscall # "listen"
    THEN FatalExit
    ELSE CASE code = "EACCES"     -> Exit(1, "server.error.EACCES")
           [] code = "EADDRINUSE" -> Exit(0, "server.error.EADDRINUSE")
           [] OTHER               -> FatalExit

\* server.on("error", ...): listen errors EACCES and EADDRINUSE exit with 1,
\* everything else is re-thrown from the event handler (an uncaught exception).
ServerErrorHandler(syscall, code) ==
  IF syscall # "listen"
    THEN FatalExit
    ELSE CASE code = "EACCES"     -> Exit(1, "server.error.EACCES")
           [] code = "EADDRINUSE" -> Exit(1, "server.error.EADDRINUSE")
           [] OTHER               -> FatalExit

\* The 'error' event of the HTTP server: at bind time for syscall listen,
\* while running for any other syscall.
ServerError ==
  /\ ~ClosePending
  /\ \E syscall \in {"listen", "accept"},
        code \in {"EACCES", "EADDRINUSE", "EADDRNOTAVAIL"} :
        /\ pc = (IF syscall = "listen" THEN "binding" ELSE "running")
        /\ lastEvent' = "serverError:" \o syscall \o ":" \o code
        /\ ServerErrorHandler(syscall, code)
  /\ UNCHANGED <<server, serverState, inflight, closeCalls, closeCallbacks,
                 dbSigint, dbCloseCalls, dbClosing, faultHandlers, signals>>
  /\ SupIdleErr

\* A process-level fault raised anywhere in the program.
Fault ==
  /\ pc \in {"connecting", "running"}
  /\ ~ClosePending
  /\ \E f \in Faults : lastEvent' = f
  /\ FatalExit
  /\ UNCHANGED <<server, serverState, inflight, closeCalls, closeCallbacks,
                 dbSigint, dbCloseCalls, dbClosing, faultHandlers, signals>>
  /\ SupIdleErr

\* A connection is accepted and its request starts being served.
RequestArrive ==
  /\ pc = "running"
  /\ serverState = "listening"
  /\ inflight < MaxInflight
  /\ inflight' = inflight + 1
  /\ UNCHANGED <<pc, server, serverState, closeCalls, closeCallbacks, dbSigint,
                 dbCloseCalls, dbClosing, faultHandlers, signals, lastEvent,
                 exitCalls, exitCode, exitSite>>
  /\ SupIdleErr

\* A response is finished and its connection ends.
RequestComplete ==
  /\ pc = "running"
  /\ inflight > 0
  /\ inflight' = inflight - 1
  /\ UNCHANGED <<pc, server, serverState, closeCalls, closeCallbacks, dbSigint,
                 dbCloseCalls, dbClosing, faultHandlers, signals, lastEvent,
                 exitCalls, exitCode, exitSite>>
  /\ SupIdleErr

\* The handler returned by gracefulShutdown(signal): with a server handle it
\* calls server.close(callback), which stops accepting and registers the
\* callback on 'close'; without one it exits at once.
GracefulShutdownHandler ==
  IF server
    THEN /\ closeCalls' = closeCalls + 1
         /\ closeCallbacks' = closeCallbacks + 1
         /\ serverState' = (IF serverState = "listening" THEN "closing"
                                                         ELSE serverState)
         /\ UNCHANGED <<exitCalls, exitCode, exitSite>>
    ELSE /\ Exit(0, "gracefulShutdown.noServer")
         /\ UNCHANGED <<closeCalls, closeCallbacks, serverState>>

\* connectDB's SIGINT handler up to its await: it starts closing the
\* data-store connection.
DBSigintHandler ==
  /\ dbCloseCalls' = dbCloseCalls + 1
  /\ dbClosing' = dbClosing + 1

\* process.emit(signal): the listeners run in registration order, the
\* gracefulShutdown listener first (registered at module load), then for
\* SIGINT the connectDB listener (registered once the data store is connected)
\* unless the first listener already ended the process.
Signal ==
  /\ pc \in {"connecting", "running"}
  /\ ~ClosePending
  /\ signals < MaxSignals
  /\ signals' = signals + 1
  /\ \E sig \in Signals :
        /\ lastEvent' = sig
        /\ GracefulShutdownHandler
        /\ IF sig = "SIGINT" /\ dbSigint /\ server
             THEN DBSigintHandler /\ pc' = pc
             ELSE /\ UNCHANGED <<dbCloseCalls, dbClosing>>
                  /\ (server => pc' = pc)
  /\ UNCHANGED <<server, inflight, dbSigint, faultHandlers>>
  /\ SupIdleErr

\* A slip in the close callback: it logs the shutdown but never calls
\* process.exit.
ServerClosedNoExit ==
  /\ ClosePending
  /\ serverState' = "closed"
  /\ closeCallbacks' = 0
  /\ lastEvent' = "close"
  /\ UNCHANGED <<pc, exitCalls, exitCode, exitSite>>
  /\ UNCHANGED <<server, inflight, closeCalls, dbSigint, dbCloseCalls,
                 dbClosing, faultHandlers, signals>>
  /\ SupIdleErr

\* The server's 'close' event: every connection has ended; the registered
\* callbacks run, and the first one calls process.exit(0).
ServerClosed ==
  /\ ClosePending
  /\ serverState' = "closed"
  /\ closeCallbacks' = 0
  /\ lastEvent' = "close"
  /\ Exit(0, "gracefulShutdown.closeCallback")
  /\ UNCHANGED <<server, inflight, closeCalls, dbSigint, dbCloseCalls,
                 dbClosing, faultHandlers, signals>>
  /\ SupIdleErr

\* mongoose.connection.close() resolved: connectDB's SIGINT handler resumes
\* after its await and calls process.exit(0).
DBClosed ==
  /\ pc = "running"
  /\ ~ClosePending
  /\ dbClosing > 0
  /\ dbClosing' = dbClosing - 1
  /\ lastEvent' = "dbClosed"
  /\ Exit(0, "connectDB.SIGINT")
  /\ UNCHANGED <<server, serverState, inflight, closeCalls, closeCallbacks,
                 dbSigint, dbCloseCalls, faultHandlers, signals>>
  /\ SupIdleErr

IdleErrInit ==
  /\ raised = [kind |-> "none"]
  /\ err = [kind |-> "none"]
  /\ nodeEnv = [t |-> "undefined"]
  /\ res = [kind |-> "none"]
  /\ req = [method |-> "GET", originalUrl |-> "/", protocol |-> "http",
            host |-> "localhost:5000"]
  /\ nf = [kind |-> "none"]

\* After module load: nothing connected, the two gracefulShutdown listeners
\* registered; whether the fault handlers were installed is up to the caller.
InitSup ==
  /\ pc = "connecting"
  /\ server = FALSE
  /\ serverState = "none"
  /\ inflight = 0
  /\ closeCalls = 0
  /\ closeCallbacks = 0
  /\ dbSigint = FALSE
  /\ dbCloseCalls = 0
  /\ dbClosing = 0
  /\ faultHandlers \in BOOLEAN
  /\ signals = 0
  /\ lastEvent = "none"
  /\ exitCalls = 0
  /\ exitCode = <<>>
  /\ exitSite = "none"
  /\ IdleErrInit

NextSup ==
  \/ ConnectDBFail
  \/ StartServer
  \/ Listening
  \/ ServerError
  \/ Fault
  \/ RequestArrive
  \/ RequestComplete
  \/ Signal
  \/ ServerClosed
  \/ DBClosed

SpecSup == InitSup /\ [][NextSup]_vars

\* The same process under the scheduling the runtime gives: a queued 'close'
\* event is dispatched, and (the assumption of the shutdown design) every
\* response in flight is eventually completed.
SpecSupFair ==
  /\ InitSup
  /\ [][NextSup]_vars
  /\ WF_vars(ServerClosed)
  /\ WF_vars(RequestComplete)

(***************************************************************************)
(*                       JAVASCRIPT VALUES AND STRINGS                     *)
(***************************************************************************)
\* A JavaScript value: undefined, a number, a boolean or a string.
Undef   == [t |-> "undefined"]
Num(n)  == [t |-> "number", n |-> n]
Bool(b) == [t |-> "boolean", b |-> b]
Str(s)  == [t |-> "string", s |-> s]
\* An object seen through Object.values / Object.keys: its entries in order.
Obj(es) == [t |-> "object", entries |-> es]

\* ToBoolean, as `||` and `if (...)` apply it.
Truthy(v) ==
  CASE v.t = "undefined" -> FALSE
    [] v.t = "number"    -> v.n # 0
    [] v.t = "boolean"   -> v.b
    [] v.t = "string"    -> v.s # ""
    [] OTHER             -> TRUE

Digit(d) == SubSeq("0123456789", d + 1, d + 1)

RECURSIVE NatToString(_)
NatToString(n) ==
  IF n < 10 THEN Digit(n) ELSE NatToString(n \div 10) \o Digit(n % 10)

\* ToString, as a template literal applies it.
JsToString(v) ==
  CASE v.t = "undefined" -> "undefined"
    [] v.t = "number"    -> NatToString(v.n)
    [] v.t = "boolean"   -> (IF v.b THEN "true" ELSE "false")
    [] v.t = "string"    -> v.s
    [] OTHER             -> "[object Object]"

\* String.prototype.includes
Includes(s, sub) ==
  \E i \in 1..(Len(s) - Len(sub) + 1) : SubSeq(s, i, i + Len(sub) - 1) = sub

\* String.prototype.startsWith
StartsWith(s, prefix) ==
  Len(s) >= Len(prefix) /\ SubSeq(s, 1, Len(prefix)) = prefix

\* Array.prototype.join on an array of strings
RECURSIVE Join(_, _)
Join(strs, sep) ==
  IF strs = <<>> THEN ""
  ELSE IF Len(strs) = 1 THEN strs[1]
  ELSE strs[1] \o sep \o Join(Tail(strs), sep)

(***************************************************************************)
(*                              ERROR LAYER                                *)
(***************************************************************************)
\* The numeric code of a data-store duplicate-key failure.
DuplicateKeyCode == 11000

\* What a handler did: it wrote a JSON response, or it threw.
Thrown(what) == [kind |-> "throw", error |-> what]
IsThrown(x)  == x.kind = "throw"

\* new AppError(message, statusCode): an Error instance, so `name` comes from
\* Error.prototype and `stack` is captured; statusCode and isOperational are
\* its own enumerable fields.
AppError(message, statusCode) ==
  [kind        |-> "ok",
   message     |-> Str(message),
   statusCode  |-> Num(statusCode),
   isOperational |-> Bool(TRUE),
   name        |-> Str("Error"),
   stack       |-> Str("Error: " \o message \o "\n    at <frames>")]

\* handleCastError
handleCastError(error) ==
  AppError("Invalid " \o JsToString(error.path) \o ": " \o JsToString(error.value),
           400)

\* A slip in handleValidationError: the fixed prefix is left out.
handleValidationErrorNoPrefix(error) ==
  IF error.errors.t # "object"
    THEN Thrown("TypeError")
    ELSE AppError(Join(error.errors.entries, ". "), 400)

\* handleValidationError: Object.values(error.errors) throws a TypeError when
\* the failure carries no `errors` object.
handleValidationError(error) ==
  IF error.errors.t # "object"
    THEN Thrown("TypeError")
    ELSE AppError("Invalid input data. " \o Join(error.errors.entries, ". "),
                  400)

\* handleDuplicateKeyError: Object.keys(error.keyValue) throws a TypeError
\* when the failure carries no `keyValue`; an empty keyValue gives undefined
\* for both the field and the value.
handleDuplicateKeyError(error) ==
  IF error.keyValue.t # "object"
    THEN Thrown("TypeError")
    ELSE LET kv    == error.keyValue.entries
             field == IF kv = <<>> THEN "undefined" ELSE kv[1][1]
             value == IF kv = <<>> THEN "undefined" ELSE kv[1][2]
         IN  AppError(field \o " '" \o value
                        \o "' already exists. Please use another value.", 400)

\* handleJWTError
handleJWTError == AppError("Invalid token. Please log in again.", 401)

\* handleJWTExpiredError
handleJWTExpiredError ==
  AppError("Your token has expired. Please log in again.", 401)

\* getErrorCode(statusCode, message); message.includes throws a TypeError
\* when the status is 404 and the message is undefined.
getErrorCode(statusCode, message) ==
  IF statusCode = Num(404)
    THEN IF message.t # "string" THEN "<TypeError>"
         ELSE IF Includes(message.s, "find") THEN "ROUTE_NOT_FOUND"
         ELSE "RESOURCE_NOT_FOUND"
  ELSE IF statusCode = Num(401) THEN "UNAUTHORIZED"
  ELSE IF statusCode = Num(403) THEN "FORBIDDEN"
  ELSE IF statusCode = Num(400) THEN "BAD_REQUEST"
  ELSE IF statusCode = Num(409) THEN "CONFLICT"
  ELSE IF statusCode = Num(422) THEN "VALIDATION_ERROR"
  ELSE IF statusCode = Num(429) THEN "RATE_LIMIT_EXCEEDED"
  ELSE "SERVER_ERROR"

\* res.status(status).json(body): fields whose value is undefined are left
\* out of the JSON text, so they are kept as Undef here.
Json(status, message, code, name, stack) ==
  [kind      |-> "json",
   status    |-> status,
   success   |-> FALSE,
   message   |-> message,
   code      |-> code,
   timestamp |-> TRUE,
   name      |-> name,
   stack     |-> stack]

\* sendErrorDev
sendErrorDev(e, env) ==
  LET code == getErrorCode(e.statusCode, e.message)
  IN  IF code = "<TypeError>" THEN Thrown("TypeError")
      ELSE Json(e.statusCode.n, e.message, code, e.name,
                IF env = Str("development") THEN e.stack ELSE Undef)

\* A slip in sendErrorProd: the non-operational branch sends the error's
\* own status and message.
sendErrorProdLeaks(e) ==
  LET code == getErrorCode(e.statusCode, e.message)
  IN  IF code = "<TypeError>" THEN Thrown("TypeError")
      ELSE Json(e.statusCode.n, e.message, code, Undef, Undef)

\* sendErrorProd
sendErrorProd(e) ==
  IF Truthy(e.isOperational)
    THEN LET code == getErrorCode(e.statusCode, e.message)
         IN  IF code = "<TypeError>" THEN Thrown("TypeError")
             ELSE Json(e.statusCode.n, e.message, code, Undef, Undef)
    ELSE Json(500, Str("Internal server error. Please try again later."),
              "INTERNAL_SERVER_ERROR", Undef, Undef)

\* err.statusCode = err.statusCode || 500
DefaultStatus(e) ==
  [e EXCEPT !.statusCode = IF Truthy(e.statusCode) THEN e.statusCode
                                                   ELSE Num(500)]

\* A slip in the copy: `error.message = err.message` is forgotten, so the
\* non-enumerable message of an Error instance is lost.
SpreadCopyNoMessage(e) ==
  [kind          |-> "ok",
   message       |-> IF e.kind = "Plain" THEN e.message ELSE Undef,
   statusCode    |-> e.statusCode,
   isOperational |-> e.isOperational,
   name          |-> IF e.kind = "ErrorProtoName" THEN Undef ELSE e.name,
   stack         |-> IF e.kind = "Plain" THEN e.stack ELSE Undef]

\* let error = { ...err }; error.message = err.message
\* The spread copies own enumerable properties only: of an Error instance it
\* drops `stack` and a `name` inherited from the prototype.
SpreadCopy(e) ==
  [kind          |-> "ok",
   message       |-> e.message,
   statusCode    |-> e.statusCode,
   isOperational |-> e.isOperational,
   name          |-> IF e.kind = "ErrorProtoName" THEN Undef ELSE e.name,
   stack         |-> IF e.kind = "Plain" THEN e.stack ELSE Undef]

\* The chain of `if` statements of globalErrorHandler: each matching one
\* overwrites `error`; a handler that throws ends the chain.
Step(match, handled, error) ==
  IF IsThrown(error) THEN error
  ELSE IF match THEN handled
  ELSE error

\* The mapping table read as first-match-wins (an else-if chain).
ClassifyFirstMatch(e) ==
  IF e.name = Str("CastError") THEN handleCastError(e)
  ELSE IF e.name = Str("ValidationError") THEN handleValidationError(e)
  ELSE IF e.code = Num(DuplicateKeyCode) THEN handleDuplicateKeyError(e)
  ELSE IF e.name = Str("JsonWebTokenError") THEN handleJWTError
  ELSE IF e.name = Str("TokenExpiredError") THEN handleJWTExpiredError
  ELSE SpreadCopy(e)

\* globalErrorHandler's copy and its five `if` statements, in source order.
Classify(e) ==
  LET e0 == SpreadCopy(e)
      e1 == Step(e.name = Str("CastError"), handleCastError(e), e0)
      e2 == Step(e.name = Str("ValidationError"), handleValidationError(e), e1)
      e3 == Step(e.code = Num(DuplicateKeyCode), handleDuplicateKeyError(e), e2)
      e4 == Step(e.name = Str("JsonWebTokenError"), handleJWTError, e3)
      e5 == Step(e.name = Str("TokenExpiredError"), handleJWTExpiredError, e4)
  IN  e5

\* The tail of globalErrorHandler: send by deployment mode.
Send(error, env) ==
  IF IsThrown(error) THEN error
  ELSE IF env = Str("development") THEN sendErrorDev(error, env)
  ELSE sendErrorProd(error)

\* globalErrorHandler, as a function of the failure (statusCode already
\* defaulted) and NODE_ENV.
Respond(e, env) == Send(Classify(e), env)

\* ---- the failures and deployment modes the handler is run on ----
ShapeNames == {"CastError", "ValidationError", "JsonWebTokenError",
               "TokenExpiredError"}

\* Error instances whose name comes from the prototype (native errors,
\* AppError and its subclasses, the data-access errors), Error instances that
\* assign this.name (the token errors), and plain objects.
Kinds == {"ErrorProtoName", "ErrorOwnName", "Plain"}

NamesOf(kind) ==
  {Str(n) : n \in ShapeNames} \cup
  (IF kind = "Plain" THEN {Undef} ELSE {Str("Error")})

\* An Error instance always has a message string; a plain object may have none.
MessagesOf(kind) ==
  {Str("boom"), Str("Can't find /cart on this server!")} \cup
  (IF kind = "Plain" THEN {Undef} ELSE {Str("")})

StatusCodes == {Undef, Num(0), Num(200), Num(404), Num(409), Num(500), Num(600)}

OperationalFlags == {Undef, Bool(FALSE), Bool(TRUE), Str("yes")}

Codes == {Undef, Num(DuplicateKeyCode), Str("LIMIT_FILE_SIZE")}

\* path and value of an invalid-identifier failure
CastFields(name) ==
  IF name = Str("CastError")
    THEN {<<Str("_id"), Str("12x")>>, <<Undef, Undef>>}
    ELSE {<<Undef, Undef>>}

\* the field-level sub-errors of a schema-validation failure (their messages)
ErrorsOf(name) ==
  IF name = Str("ValidationError")
    THEN {Obj(<<"Name is required">>),
          Obj(<<"Name is required", "Price must be positive">>), Undef}
    ELSE {Undef}

\* the field/value pairs of a uniqueness violation
KeyValuesOf(code) ==
  IF code = Num(DuplicateKeyCode)
    THEN {Obj(<< <<"email", "a@b.com">> >>), Obj(<<>>), Undef}
    ELSE {Undef}

Failures ==
  UNION { UNION { UNION {
    { [kind          |-> k,
       name          |-> n,
       message       |-> m,
       stack         |-> IF k = "Plain" THEN Undef ELSE Str("<stack>"),
       statusCode    |-> sc,
       isOperational |-> op,
       code          |-> c,
       path          |-> pv[1],
       value         |-> pv[2],
       errors        |-> es,
       keyValue      |-> kv]
      : m \in MessagesOf(k), sc \in StatusCodes, op \in OperationalFlags,
        pv \in CastFields(n), es \in ErrorsOf(n), kv \in KeyValuesOf(c) }
    : c \in Codes } : n \in NamesOf(k) } : k \in Kinds }

NodeEnvs == {Str("development"), Str("production"), Undef}

ErrIdleRest == UNCHANGED <<supVars, nfVars>>

\* globalErrorHandler(err, req, res): defaults err.statusCode in place,
\* classifies a copy and writes the response (or throws).
GlobalErrorHandler ==
  /\ res.kind = "none"
  /\ err' = DefaultStatus(err)
  /\ res' = Respond(DefaultStatus(err), nodeEnv)
  /\ UNCHANGED <<raised, nodeEnv>>
  /\ ErrIdleRest

InitErr ==
  /\ raised \in Failures
  /\ err = raised
  /\ nodeEnv \in NodeEnvs
  /\ res = [kind |-> "none"]
  /\ req = [method |-> "GET", originalUrl |-> "/", protocol |-> "http",
            host |-> "localhost:5000"]
  /\ nf = [kind |-> "none"]
  /\ pc = "running"
  /\ server = TRUE
  /\ serverState = "listening"
  /\ inflight = 1
  /\ closeCalls = 0
  /\ closeCallbacks = 0
  /\ dbSigint = TRUE
  /\ dbCloseCalls = 0
  /\ dbClosing = 0
  /\ faultHandlers = FALSE
  /\ signals = 0
  /\ lastEvent = "listening"
  /\ exitCalls = 0
  /\ exitCode = <<>>
  /\ exitSite = "none"

NextErr == GlobalErrorHandler

SpecErr == InitErr /\ [][NextErr]_vars

\* ---- the two handlers that answer without going through AppError ----
\* res.status(status).json({ success: false, message }): a body with no
\* `error` object.
JsonBare(status, message) ==
  [kind    |-> "json",
   status  |-> status,
   success |-> FALSE,
   message |-> Str(message)]

\* next(error): the failure is handed on, nothing is written.
PassedOn == [kind |-> "next"]

\* handleRateLimitError(req, res)
handleRateLimitError ==
  JsonBare(429, "Too many requests from this IP, please try again later.")

\* handleFileUploadError(error, req, res, next)
handleFileUploadError(error) ==
  IF error.code = Str("LIMIT_FILE_SIZE")
    THEN JsonBare(400, "File too large. Maximum size allowed is 5MB.")
  ELSE IF error.code = Str("LIMIT_FILE_COUNT")
    THEN JsonBare(400, "Too many files. Maximum 10 files allowed.")
  ELSE IF error.code = Str("LIMIT_UNEXPECTED_FILE")
    THEN JsonBare(400, "Unexpected field in file upload.")
  ELSE PassedOn

\* the codes of the failures an upload raises
UploadCodes == {Str("LIMIT_FILE_SIZE"), Str("LIMIT_FILE_COUNT"),
                Str("LIMIT_UNEXPECTED_FILE"), Str("LIMIT_PART_COUNT"), Undef}

\* The rate limiter rejects the request.
HandleRateLimitError ==
  /\ res.kind = "none"
  /\ res' = handleRateLimitError
  /\ UNCHANGED <<raised, err, nodeEnv>>
  /\ ErrIdleRest

\* An upload fails and its failure reaches handleFileUploadError.
HandleFileUploadError ==
  /\ res.kind = "none"
  /\ \E c \in UploadCodes :
        /\ raised' = [raised EXCEPT !.code = c]
        /\ err' = [err EXCEPT !.code = c]
        /\ res' = handleFileUploadError([err EXCEPT !.code = c])
  /\ UNCHANGED nodeEnv
  /\ ErrIdleRest

\* every handler of the error layer that can answer a request
NextLayer ==
  \/ GlobalErrorHandler
  \/ HandleRateLimitError
  \/ HandleFileUploadError

SpecLayer == InitErr /\ [][NextLayer]_vars

(***************************************************************************)
(*                         NOT-FOUND RESPONDER                             *)
(***************************************************************************)
\* the number of suggestions put in the message: suggestions.slice(0, 5)
MaxSuggestions == 5

UpperCase == "ABCDEFGHIJKLMNOPQRSTUVWXYZ"
LowerCase == "abcdefghijklmnopqrstuvwxyz"

CharAt(s, i) == SubSeq(s, i, i)

LowerChar(c) ==
  IF \E i \in 1..26 : CharAt(UpperCase, i) = c
    THEN CharAt(LowerCase, CHOOSE i \in 1..26 : CharAt(UpperCase, i) = c)
    ELSE c

\* String.prototype.toLowerCase
RECURSIVE ToLowerCase(_)
ToLowerCase(s) ==
  IF Len(s) = 0 THEN ""
  ELSE LowerChar(CharAt(s, 1)) \o ToLowerCase(SubSeq(s, 2, Len(s)))

\* String.prototype.split on a one-character separator
RECURSIVE Split(_, _)
Split(s, sep) ==
  IF Len(s) = 0 THEN <<"">>
  ELSE LET rest == Split(SubSeq(s, 2, Len(s)), sep)
       IN  IF CharAt(s, 1) = sep
             THEN <<"">> \o rest
             ELSE <<CharAt(s, 1) \o rest[1]>> \o Tail(rest)

\* Array.prototype.filter(Boolean) on strings: the empty ones are dropped
FilterBoolean(strs) == SelectSeq(strs, LAMBDA x : Len(x) > 0)

\* Array.prototype.slice(0, n)
Slice(a, n) == SubSeq(a, 1, IF Len(a) < n THEN Len(a) ELSE n)

\* the static directory of resource groups
apiRoutes ==
  [auth       |-> <<"/api/auth/register", "/api/auth/login", "/api/auth/logout",
                    "/api/auth/profile", "/api/auth/forgot-password",
                    "/api/auth/reset-password", "/api/auth/change-password">>,
   products   |-> <<"/api/products", "/api/products/search",
                    "/api/products/featured", "/api/products/{id}",
                    "/api/products/{id}/reviews">>,
   categories |-> <<"/api/categories", "/api/categories/tree",
                    "/api/categories/{id}">>,
   cart       |-> <<"/api/cart", "/api/cart/add", "/api/cart/update",
                    "/api/cart/remove", "/api/cart/clear">>,
   orders     |-> <<"/api/orders", "/api/orders/my-orders", "/api/orders/{id}",
                    "/api/orders/{id}/cancel">>,
   reviews    |-> <<"/api/reviews", "/api/reviews/product/{id}",
                    "/api/reviews/{id}">>,
   users      |-> <<"/api/users/profile", "/api/users/addresses",
                    "/api/users/orders">>,
   wishlist   |-> <<"/api/wishlist", "/api/wishlist/add",
                    "/api/wishlist/remove">>,
   coupons    |-> <<"/api/coupons/active", "/api/coupons/validate">>,
   banners    |-> <<"/api/banners/active">>,
   admin      |-> <<"/api/admin/dashboard", "/api/admin/users",
                    "/api/admin/orders", "/api/admin/products",
                    "/api/admin/categories">>]

commonSuggestions ==
  <<"/api/auth/login", "/api/auth/register", "/api/products",
    "/api/categories", "/api/orders">>

tips ==
  <<"Check if the HTTP method (GET, POST, PUT, DELETE) is correct",
    "Ensure all required parameters are included",
    "Verify the endpoint URL spelling and format",
    "Check if authentication is required for this endpoint">>

\* Property names every object literal inherits from Object.prototype and
\* that survive toLowerCase: reading them from apiRoutes gives a function
\* (constructor) or an object (__proto__), truthy and not iterable.
InheritedKeys == {"constructor", "__proto__"}

\* pathSegments[1], undefined when the URL has no second segment
Resource(originalUrl) ==
  LET pathSegments == FilterBoolean(Split(ToLowerCase(originalUrl), "/"))
  IN  IF Len(pathSegments) >= 2 THEN Str(pathSegments[2]) ELSE Undef

\* the forEach loops that append one bullet line per item to the message
\* (the bullet character of the source is written "*" here)
RECURSIVE Bullets(_)
Bullets(items) ==
  IF items = <<>> THEN ""
  ELSE "\n  * " \o items[1] \o Bullets(Tail(items))

NFNext(error, listed) == [kind |-> "next", error |-> error, listed |-> listed]

\* the body of apiNotFoundHandler once the suggestions are chosen
NotFoundWith(r, suggestions) ==
  LET m1 == "API endpoint '" \o r.method \o " " \o r.originalUrl
              \o "' not found."
      m2 == IF Len(suggestions) > 0
              THEN m1 \o "\n\nDid you mean one of these:"
                      \o Bullets(Slice(suggestions, MaxSuggestions))
              ELSE m1
      m3 == m2 \o "\n\nFor complete API documentation, visit: "
               \o r.protocol \o "://" \o r.host \o "/docs"
      m4 == m3 \o "\n\nTroubleshooting tips:" \o Bullets(tips)
  IN  NFNext(AppError(m4, 404),
             IF Len(suggestions) > 0 THEN Slice(suggestions, MaxSuggestions)
                                     ELSE <<>>)

\* suggestions.push(...apiRoutes[resource]) on an inherited property.  As
\* native spread syntax it throws a TypeError (the value is not iterable);
\* compiled down to Function.prototype.apply / Array.prototype.slice it reads
\* the value as an array-like: the function `constructor` has length 1 and
\* yields one undefined element, the object `__proto__` has no length and
\* yields none.
SpreadInherited(r, key, nativeSpread) ==
  IF nativeSpread THEN Thrown("TypeError")
  ELSE IF key = "constructor" THEN NotFoundWith(r, <<"undefined">>)
  ELSE NotFoundWith(r, <<>>)

\* apiNotFoundHandler(req, res, next); nativeSpread tells how the build
\* compiles the spread syntax.
apiNotFoundHandler(r, nativeSpread) ==
  IF ~StartsWith(r.originalUrl, "/api/")
    THEN NFNext(Undef, <<>>)
    ELSE LET resource == Resource(r.originalUrl)
         IN  IF resource # Undef /\ resource.s \in DOMAIN apiRoutes
               THEN NotFoundWith(r, apiRoutes[resource.s])
             ELSE IF resource # Undef /\ resource.s \in InheritedKeys
               THEN SpreadInherited(r, resource.s, nativeSpread)
             ELSE NotFoundWith(r, commonSuggestions)

Methods == {"GET", "POST", "PUT", "DELETE"}

Urls == {"/", "/health", "/docs", "/api", "/api/", "/API/auth", "/apiary/x",
         "/api/auth/login", "/api/Auth", "/api/xyz123", "/api/products?x=1",
         "/api//cart", "/api/banners/none", "/api/coupons", "/api/orders/7",
         "/api/v1/health", "/api/constructor", "/api/__proto__/x",
         "/api/toString"}

Requests ==
  [method : Methods, originalUrl : Urls, protocol : {"http", "https"},
   host : {"localhost:5000"}]

\* The middleware runs on a request.
ApiNotFoundHandler ==
  /\ nf.kind = "none"
  /\ \E nativeSpread \in BOOLEAN : nf' = apiNotFoundHandler(req, nativeSpread)
  /\ UNCHANGED <<req, supVars, errVars>>

InitNF ==
  /\ req \in Requests
  /\ nf = [kind |-> "none"]
  /\ raised = [kind |-> "none"]
  /\ err = [kind |-> "none"]
  /\ nodeEnv = [t |-> "undefined"]
  /\ res = [kind |-> "none"]
  /\ pc = "running"
  /\ server = TRUE
  /\ serverState = "listening"
  /\ inflight = 1
  /\ closeCalls = 0
  /\ closeCallbacks = 0
  /\ dbSigint = TRUE
  /\ dbCloseCalls = 0
  /\ dbClosing = 0
  /\ faultHandlers = FALSE
  /\ signals = 0
  /\ lastEvent = "listening"
  /\ exitCalls = 0
  /\ exitCode = <<>>
  /\ exitSite = "none"

NextNF == ApiNotFoundHandler

SpecNF == InitNF /\ [][NextNF]_vars

(***************************************************************************)
(*                     CLAIMS ON THE PROCESS SUPERVISOR                    *)
(***************************************************************************)
\* The process was ended by a signal handler or its continuation.
GracefulExit == pc = "exited" /\ exitSite \in SignalSites

\* Events after which the process must be gone with code 1.
FatalEvents == {"startup:noURI", "startup:connectRejected",
                "startup:listenThrows",
                "serverError:listen:EACCES", "serverError:listen:EADDRINUSE",
                "unhandledRejection", "uncaughtException"}

\* C1: shutdown is idempotent: however many termination signals arrive,
\* server.close is invoked at most once (exactly once when a graceful exit
\* follows a started server) and process exit is called at most once.
C1_ShutdownOnce ==
  /\ closeCalls <= 1
  /\ exitCalls <= 1
  /\ (GracefulExit /\ server => closeCalls = 1 /\ exitCalls = 1)

\* C7: after a graceful signal, exit is never called while a response is
\* still in flight: a graceful exit of a started server happens only once the
\* HTTP server's close has completed.
C7_ExitAfterClose ==
  (GracefulExit /\ server) => (inflight = 0 /\ serverState = "closed")

\* C8: every termination uses the specified exit code: 0 exactly for an exit
\* made by a termination-signal handler (and then a signal was received), 1
\* for a start-up failure, a port-binding conflict, an unhandled rejection or
\* an uncaught exception; and such a fault always ends the process.
C8_ExitCodes ==
  /\ pc = "exited" =>
        /\ exitCalls = 1
        /\ exitCode \in {<<0>>, <<1>>}
        /\ (exitCode = <<0>> <=> exitSite \in SignalSites)
        /\ (exitCode = <<0>> => signals > 0)
  /\ pc # "exited" => exitCode = <<>> /\ exitCalls = 0
  /\ lastEvent \in FatalEvents => pc = "exited" /\ exitCode = <<1>>

\* C8 witness: a port already in use ended the process with code 1.
C8_Witness ==
  /\ pc = "exited"
  /\ lastEvent = "serverError:listen:EADDRINUSE"
  /\ exitCode = <<1>>

\* the supervisor's states
Running      == pc = "running" /\ serverState = "listening"
ShuttingDown == pc = "running" /\ serverState = "closing"
Stopped      == pc = "exited"

\* C12: once a termination signal was received by the running server it is
\* ShuttingDown until it is Stopped, and it does get Stopped (process exit is
\* called) provided responses in flight complete and queued events run; a
\* signal received before the server handle is set ends the process at once,
\* with code 0 and without any call of server.close.
C12_ShutdownTerminates ==
  /\ []((pc = "running" /\ signals > 0) => ShuttingDown)
  /\ ((pc = "running" /\ signals > 0) ~> (Stopped /\ exitCalls = 1))
  /\ [][(~server /\ signals' > signals)
          => (Stopped' /\ closeCalls' = 0 /\ exitCode' = <<0>>
                /\ exitSite' = "gracefulShutdown.noServer")]_vars

\* C12 witness: a signalled server closed and its callback ended the process.
C12_Witness ==
  /\ Stopped
  /\ signals > 0
  /\ serverState = "closed"
  /\ exitSite = "gracefulShutdown.closeCallback"
  /\ exitCode = <<0>>

(***************************************************************************)
(*                       CLAIMS ON THE ERROR LAYER                         *)
(***************************************************************************)
Handled     == res.kind # "none"
Production  == nodeEnv = Str("production")
Development == nodeEnv = Str("development")

MatchesCast(e)       == e.name = Str("CastError")
MatchesValidation(e) == e.name = Str("ValidationError")
MatchesDuplicate(e)  == e.code = Num(DuplicateKeyCode)
MatchesJWT(e)        == e.name = Str("JsonWebTokenError")
MatchesExpired(e)    == e.name = Str("TokenExpiredError")

\* how many of the five shapes a failure matches
ShapesMatched(e) ==
  Cardinality({i \in 1..5 :
     \/ i = 1 /\ MatchesCast(e)
     \/ i = 2 /\ MatchesValidation(e)
     \/ i = 3 /\ MatchesDuplicate(e)
     \/ i = 4 /\ MatchesJWT(e)
     \/ i = 5 /\ MatchesExpired(e)})

\* A failure as its library raises it: it has a message, and the data its
\* shape implies (path for an invalid identifier, field errors for a schema
\* validation failure, a field/value pair for a uniqueness violation).
WellFormed(e) ==
  /\ e.message.t = "string"
  /\ MatchesCast(e) => e.path.t = "string"
  /\ MatchesValidation(e) => e.errors.t = "object"
  /\ MatchesDuplicate(e) => e.keyValue.t = "object" /\ e.keyValue.entries # <<>>

GenericResponse ==
  Json(500, Str("Internal server error. Please try again later."),
       "INTERNAL_SERVER_ERROR", Undef, Undef)

\* C2 (as claimed): in production every error whose isOperational is not
\* true, whatever its name or other fields, gets the generic 500 response
\* with no stack.
C2_ProdNonOperationalGeneric ==
  (Handled /\ Production /\ raised.isOperational # Bool(TRUE))
    => res = GenericResponse

\* C2 (amended): in production every error whose isOperational is absent or
\* falsy and that matches none of the five mapped shapes gets the generic 500
\* response: status 500, the fixed message, code INTERNAL_SERVER_ERROR, no
\* stack, nothing of the error's own message or status.
C2_ProdUnmappedNonOperationalGeneric ==
  (Handled /\ Production /\ ~Truthy(raised.isOperational)
     /\ ShapesMatched(raised) = 0)
    => /\ res.kind = "json"
       /\ res.status = 500
       /\ res.message = Str("Internal server error. Please try again later.")
       /\ res.code = "INTERNAL_SERVER_ERROR"
       /\ res.stack = Undef
       /\ res.name = Undef

C2_Witness ==
  /\ Handled /\ Production
  /\ raised.isOperational = Undef
  /\ ShapesMatched(raised) = 0
  /\ raised.kind = "ErrorProtoName"
  /\ raised.statusCode = Num(404)
  /\ raised.message = Str("boom")
  /\ res.status = 500

\* C3: in development every error handed to globalErrorHandler, rewritten by
\* a shape handler or passed through the copy, is answered with its message,
\* a symbolic code, a timestamp, the error name and a stack field.  Stated
\* here for well-formed Error instances (which have a name and a stack), all
\* of which the claim covers.
C3_DevResponseComplete ==
  (Handled /\ Development /\ WellFormed(raised) /\ raised.kind # "Plain")
    => /\ res.kind = "json"
       /\ (ShapesMatched(raised) = 0 => res.message = raised.message)
       /\ res.message.t = "string"
       /\ res.code = getErrorCode(Num(res.status), res.message)
       /\ res.timestamp
       /\ res.name.t = "string"
       /\ res.stack.t = "string"

\* C4: when a failure matches more than one shape the response is the one of
\* the earliest matching rule of the table.  Stated here for well-formed
\* failures, which the claim covers.
C4_FirstMatchWins ==
  (Handled /\ ShapesMatched(raised) > 1 /\ WellFormed(raised))
    => res = Send(ClassifyFirstMatch(DefaultStatus(raised)), nodeEnv)

\* C5 (as claimed): an error that carries a status code and
\* isOperational = true, whatever its name or code, is answered with its own
\* status, symbolic code and message.  Stated here for errors with a
\* non-zero status and a message string, which the claim covers.
C5_OperationalUnchanged ==
  (Handled /\ raised.isOperational = Bool(TRUE)
     /\ raised.statusCode.t = "number" /\ raised.statusCode.n # 0
     /\ raised.message.t = "string")
    => /\ res.kind = "json"
       /\ res.status = raised.statusCode.n
       /\ res.message = raised.message
       /\ res.code = getErrorCode(raised.statusCode, raised.message)

\* C5 (amended): an error that carries a non-zero status code, a message
\* string and isOperational = true, and that matches none of the five mapped
\* shapes, is answered with its own status, symbolic code and message.
C5_UnmappedOperationalUnchanged ==
  (Handled /\ raised.isOperational = Bool(TRUE)
     /\ raised.statusCode.t = "number" /\ raised.statusCode.n # 0
     /\ raised.message.t = "string"
     /\ ShapesMatched(raised) = 0)
    => /\ res.kind = "json"
       /\ res.status = raised.statusCode.n
       /\ res.message = raised.message
       /\ res.code = getErrorCode(raised.statusCode, raised.message)

C5_Witness ==
  /\ Handled /\ Production
  /\ raised.kind = "ErrorProtoName"
  /\ raised.isOperational = Bool(TRUE)
  /\ raised.statusCode = Num(404)
  /\ raised.message = Str("Can't find /cart on this server!")
  /\ raised.code = Str("LIMIT_FILE_SIZE")
  /\ res.status = 404
  /\ res.code = "ROUTE_NOT_FOUND"

\* the status, symbolic code and message of the response
Answered(status, code, message) ==
  /\ res.kind = "json"
  /\ res.status = status
  /\ res.code = code
  /\ res.message = Str(message)

\* C6 (as claimed): a failure matching exactly one shape is answered as the
\* table says, the schema-validation message being the field messages joined
\* by ". " and nothing else.
C6_ShapeTable ==
  (Handled /\ ShapesMatched(raised) = 1)
    => /\ MatchesCast(raised) =>
            Answered(400, "BAD_REQUEST",
                     "Invalid " \o JsToString(raised.path) \o ": "
                       \o JsToString(raised.value))
       /\ (MatchesValidation(raised) /\ raised.errors.t = "object") =>
            Answered(400, "BAD_REQUEST", Join(raised.errors.entries, ". "))
       /\ (MatchesDuplicate(raised) /\ raised.keyValue.t = "object"
             /\ raised.keyValue.entries # <<>>) =>
            Answered(400, "BAD_REQUEST",
                     raised.keyValue.entries[1][1] \o " '"
                       \o raised.keyValue.entries[1][2]
                       \o "' already exists. Please use another value.")
       /\ MatchesJWT(raised) =>
            Answered(401, "UNAUTHORIZED", "Invalid token. Please log in again.")
       /\ MatchesExpired(raised) =>
            Answered(401, "UNAUTHORIZED",
                     "Your token has expired. Please log in again.")

\* C6 (amended): the same table, except that the schema-validation message is
\* "Invalid input data. " followed by the field messages joined by ". "; the
\* schema-validation row is for failures carrying their field errors and the
\* uniqueness row for failures carrying a field/value pair.
C6_ShapeTableWithPrefix ==
  (Handled /\ ShapesMatched(raised) = 1)
    => /\ MatchesCast(raised) =>
            Answered(400, "BAD_REQUEST",
                     "Invalid " \o JsToString(raised.path) \o ": "
                       \o JsToString(raised.value))
       /\ (MatchesValidation(raised) /\ raised.errors.t = "object") =>
            Answered(400, "BAD_REQUEST",
                     "Invalid input data. "
                       \o Join(raised.errors.entries, ". "))
       /\ (MatchesDuplicate(raised) /\ raised.keyValue.t = "object"
             /\ raised.keyValue.entries # <<>>) =>
            Answered(400, "BAD_REQUEST",
                     raised.keyValue.entries[1][1] \o " '"
                       \o raised.keyValue.entries[1][2]
                       \o "' already exists. Please use another value.")
       /\ MatchesJWT(raised) =>
            Answered(401, "UNAUTHORIZED", "Invalid token. Please log in again.")
       /\ MatchesExpired(raised) =>
            Answered(401, "UNAUTHORIZED",
                     "Your token has expired. Please log in again.")

C6_Witness ==
  /\ Handled /\ Production
  /\ ShapesMatched(raised) = 1
  /\ MatchesValidation(raised)
  /\ raised.errors = Obj(<<"Name is required", "Price must be positive">>)
  /\ res.kind = "json"
  /\ res.status = 400
  /\ res.message =
       Str("Invalid input data. Name is required. Price must be positive")

\* C10: whatever the error and the deployment mode, the status written to
\* the response is in [400,599].
C10_StatusInRange ==
  (Handled /\ res.kind = "json") => res.status \in 400..599

(***************************************************************************)
(*                   CLAIMS ON THE NOT-FOUND RESPONDER                     *)
(***************************************************************************)
\* the list the claim prescribes for a segment: the group's list (cut to
\* five) when the segment names a resource group, the common list otherwise
PrescribedSuggestions(originalUrl) ==
  LET segment == Resource(originalUrl)
  IN  IF segment # Undef /\ segment.s \in DOMAIN apiRoutes
        THEN Slice(apiRoutes[segment.s], MaxSuggestions)
        ELSE commonSuggestions

\* C9: every request under "/api/", whatever the segment that follows, is
\* forwarded exactly one 404 error whose message names the method and path
\* and lists one to five suggestions, determined by the segment after "api";
\* every other request is passed on with no error.
C9_ApiNotFound ==
  nf.kind # "none" =>
    IF StartsWith(req.originalUrl, "/api/")
      THEN /\ nf.kind = "next"
           /\ nf.error # Undef
           /\ nf.error.statusCode = Num(404)
           /\ Includes(nf.error.message.s,
                       req.method \o " " \o req.originalUrl)
           /\ Len(nf.listed) \in 1..MaxSuggestions
           /\ \A i \in 1..Len(nf.listed) :
                 Includes(nf.error.message.s, nf.listed[i])
           /\ nf.listed = PrescribedSuggestions(req.originalUrl)
      ELSE nf = NFNext(Undef, <<>>)

\* The claim holds of every request whose segment after "api" is not a
\* property name inherited from Object.prototype.
C9_HoldsOffInheritedKeys ==
  (Resource(req.originalUrl) = Undef
     \/ Resource(req.originalUrl).s \notin InheritedKeys) => C9_ApiNotFound

(***************************************************************************)
(*                 CLAIMS ON EVERY HANDLER OF THE ERROR LAYER              *)
(***************************************************************************)
\* the body carries an `error` object with a symbolic code and a timestamp
HasErrorObject(r) ==
  /\ {"code", "timestamp"} \subseteq DOMAIN r
  /\ Len(r.code) > 0
  /\ r.timestamp

\* C11: every error response written by a handler of the error layer
\* (globalErrorHandler in both modes, handleRateLimitError,
\* handleFileUploadError) is an ErrorResponseEnvelope: success = false, a
\* message, an error object with a symbolic code and a timestamp, and an
\* error status.  Stated here for requests whose failure is well formed, all
\* of which the claim covers.
C11_Envelope ==
  (res.kind = "json" /\ WellFormed(raised)) =>
    /\ res.success = FALSE
    /\ res.message.t = "string"
    /\ HasErrorObject(res)
    /\ res.status \in 400..599

====
